---- MODULE Spec2Model ----
(***************************************************************************)
(* ThreadsafeQueue<T> (src/ThreadsafeQueue.cpp) and its demonstration      *)
(* program (src/driver.cpp) as a state machine.                            *)
(*                                                                         *)
(* Every member function is split at its statements: the construction of   *)
(* the std::lock_guard, each statement of the body, and the destruction of *)
(* the guard on return or while an exception unwinds.  std::mutex is taken *)
(* as given: lock() waits until the mutex is free.  A failing allocation   *)
(* (std::bad_alloc) is not modelled.                                       *)
(*                                                                         *)
(* A value of type T is a number of Values; an optional T (a slot that may *)
(* not hold an element yet, a null shared_ptr) is a sequence of length at  *)
(* most one.                                                               *)
(***************************************************************************)
EXTENDS Integers, Sequences, FiniteSets, TLC

\* Number of client threads of the general specification.
NThreads == 2
\* Number of distinct payloads the clients may push.
MaxVal == 2
\* Number of worker threads main starts (the loop bound of driver.cpp:142).
NWorkers == 4

Threads == 1 .. NThreads
Values == 1 .. MaxVal
\* The queue instances: the one every thread shares, and its copy.
Queues == {"orig", "copy"}

VARIABLES
    theQueue,   \* theQueue[q]: the std::queue<T> member of instance q
    m,          \* m[q]: the set of threads that own the std::mutex of q
    built,      \* the instances whose constructor has returned
    pc,         \* pc[t]: the statement thread t executes next
    caller,     \* caller[t]: the call site of the member function t is in
    self,       \* self[t]: the instance (this) of that member function
    new_value,  \* new_value[t]: the parameter of push
    value,      \* value[t]: the slot thread t passes to pop(T&)
    res,        \* res[t]: the shared_ptr pop() builds
    ret,        \* ret[t]: what the thread's last call, if empty(), returned
    idx,        \* the loop counter of main
    atLock,     \* history: the sequence of the instance when t locked it
    lockOrd,    \* history: per instance, the pushed values in locking order
    pushed,     \* history: per instance, the values of the returned pushes
    log,        \* history: per instance, the outcomes of the removes
    before,     \* history: before[v], the pushes returned when push(v) began
    retAt,      \* history: the number of removes logged when ret was read
    retOps,     \* history: the number of pushes and removes when ret was read
    slotAt      \* history: what the slot held when it was passed to pop(T&)

queueVars == <<theQueue, m, built>>
threadVars == <<pc, caller, self, new_value, value, res, ret, idx>>
histVars == <<atLock, lockOrd, pushed, log, before, retAt, retOps, slotAt>>
vars == <<queueVars, threadVars, histVars>>

\* The thrown empty_queue, as an outcome of a remove.
empty_queue == <<>>

\* The outcomes that delivered a value, in order.
Delivered(l) == SelectSeq(l, LAMBDA e : e # empty_queue)

\* The values of a sequence of one-element boxes.
Unbox(l) == [i \in 1 .. Len(l) |-> l[i][1]]

Range(s) == {s[i] : i \in 1 .. Len(s)}

\* What a slot of type T may hold before an element is assigned to it.
Slots == {<<>>} \cup {<<v>> : v \in Values}

\* std::queue<T>::empty, front, pop and push.  front and pop of an empty
\* queue are undefined; no member function reaches them.
\* Mutant: the test is size() <= 1.
QEmptyOffByOne(q) == Len(q) <= 1
QEmpty(q) == q = <<>>
\* Mutant: back() is read in place of front().
QBack(q) == IF q = <<>> THEN <<>> ELSE <<q[Len(q)]>>
QFront(q) == IF q = <<>> THEN <<>> ELSE <<Head(q)>>
\* Mutant: the element is left in the queue.
QPopNone(q) == q
QPop(q) == IF q = <<>> THEN <<>> ELSE Tail(q)
\* Mutant: the queue has a capacity of one element and drops what exceeds it.
QPushBounded(q, v) == IF Len(q) >= 1 THEN q ELSE Append(q, v)
\* Mutant: the element enters at the front.
QPushFront(q, v) == <<v>> \o q
QPush(q, v) == Append(q, v)

\* Where a member function returns to, and where its exception lands.
AfterReturn(c) ==
    CASE c = "client" -> "idle"
      [] c = "c_check" -> "c_test"
      [] c = "w_push" -> "w_busy"
      [] c = "w_pop" -> "w_done"
      [] c = "m_drain" -> "m_drain"
      [] c = "tw_push" -> "tw_push2"
      [] c = "tw_pop" -> "tw_pop2"
      [] OTHER -> "idle"

AfterThrow(c) ==
    CASE c = "client" -> "idle"
      [] c = "m_drain" -> "m_catch"
      [] c = "tw_pop" -> "tw_pop2"
      [] OTHER -> "idle"

\* The instance whose mutex and sequence the member function works under.
CopyPcs == {"copy_lock", "copy_body", "copy_unlock"}
Src(t) == IF pc[t] \in CopyPcs THEN "orig" ELSE self[t]

Goto(t, label) == pc' = [pc EXCEPT ![t] = label]

\* Mutant: one mutex is shared by every instance of the class.
lock_guard_static(t, q) ==
    /\ \A x \in Queues : m[x] = {}
    /\ m' = [x \in Queues |-> {t}]
    /\ atLock' = [atLock EXCEPT ![t] = theQueue[q]]
\* Mutant: the guard does not wait for the mutex to be free.
lock_guard_nowait(t, q) ==
    /\ m' = [m EXCEPT ![q] = {t}]
    /\ atLock' = [atLock EXCEPT ![t] = theQueue[q]]

\* std::lock_guard<std::mutex> lock(m): its constructor and destructor.
lock_guard(t, q) ==
    /\ m[q] = {}
    /\ m' = [m EXCEPT ![q] = {t}]
    /\ atLock' = [atLock EXCEPT ![t] = theQueue[q]]

unlock_guard(t, q) ==
    /\ m' = [m EXCEPT ![q] = m[q] \ {t}]
    /\ atLock' = [atLock EXCEPT ![t] = <<>>]

\* The result of an earlier empty() is dropped.
ClearRet(t) ==
    /\ ret' = [ret EXCEPT ![t] = <<>>]
    /\ retAt' = [retAt EXCEPT ![t] = 0]
    /\ retOps' = [retOps EXCEPT ![t] = 0]

\* An outcome enters the log; a run of failures is logged once.
Logged(l, e) ==
    IF e = empty_queue /\ l # <<>> /\ l[Len(l)] = empty_queue THEN l ELSE Append(l, e)

----------------------------------------------------------------------------
\* bool empty() const

empty_lock(t) ==
    /\ pc[t] = "empty_lock"
    /\ lock_guard(t, self[t])
    /\ Goto(t, "empty_body")
    /\ UNCHANGED <<theQueue, built, caller, self, new_value, value, res, ret, idx>>
    /\ UNCHANGED <<lockOrd, pushed, log, before, retAt, retOps, slotAt>>

\* Mutant: the result is negated.
empty_result_negated(q) == ~QEmpty(q)

\* return theQueue.empty();
empty_result(q) == QEmpty(q)

empty_body(t) ==
    /\ pc[t] = "empty_body"
    /\ ret' = [ret EXCEPT ![t] = <<self[t], empty_result(theQueue[self[t]])>>]
    /\ retAt' = [retAt EXCEPT ![t] = Len(Delivered(log[self[t]]))]
    /\ retOps' = [retOps EXCEPT ![t] =
                    Len(lockOrd[self[t]]) + Len(Delivered(log[self[t]]))]
    /\ Goto(t, "empty_unlock")
    /\ UNCHANGED <<queueVars, caller, self, new_value, value, res, idx>>
    /\ UNCHANGED <<atLock, lockOrd, pushed, log, before, slotAt>>

empty_unlock(t) ==
    /\ pc[t] = "empty_unlock"
    /\ unlock_guard(t, self[t])
    /\ Goto(t, AfterReturn(caller[t]))
    /\ UNCHANGED <<theQueue, built, caller, self, new_value, value, res, ret, idx>>
    /\ UNCHANGED <<lockOrd, pushed, log, before, retAt, retOps, slotAt>>

----------------------------------------------------------------------------
\* void pop(T& value)

popv_lock(t) ==
    /\ pc[t] = "popv_lock"
    /\ lock_guard(t, self[t])
    /\ Goto(t, "popv_check")
    /\ UNCHANGED <<theQueue, built, caller, self, new_value, value, res, ret, idx>>
    /\ UNCHANGED <<lockOrd, pushed, log, before, retAt, retOps, slotAt>>

\* Mutant: the front is assigned to the slot before the test.
popv_check_assigned(t) ==
    /\ pc[t] = "popv_check"
    /\ value' = [value EXCEPT ![t] = QFront(theQueue[self[t]])]
    /\ Goto(t, IF QEmpty(theQueue[self[t]]) THEN "popv_throw" ELSE "popv_front")
    /\ UNCHANGED <<queueVars, caller, self, new_value, res, ret, idx, histVars>>
\* Mutant: the element is removed before the test.
popv_check_after(t) ==
    /\ pc[t] = "popv_check"
    /\ theQueue' = [theQueue EXCEPT ![self[t]] = QPop(@)]
    /\ Goto(t, IF QEmpty(QPop(theQueue[self[t]])) THEN "popv_throw" ELSE "popv_front")
    /\ UNCHANGED <<m, built, caller, self, new_value, value, res, ret, idx, histVars>>

\* if(theQueue.empty()) throw empty_queue();
popv_check(t) ==
    /\ pc[t] = "popv_check"
    /\ Goto(t, IF QEmpty(theQueue[self[t]]) THEN "popv_throw" ELSE "popv_front")
    /\ UNCHANGED <<queueVars, caller, self, new_value, value, res, ret, idx, histVars>>

\* Mutant: the front element is not assigned to the caller's slot.
popv_front_skip(t) ==
    /\ pc[t] = "popv_front"
    /\ slotAt' = [slotAt EXCEPT ![t] = <<>>]
    /\ Goto(t, "popv_pop")
    /\ UNCHANGED <<queueVars, caller, self, new_value, value, res, ret, idx>>
    /\ UNCHANGED <<atLock, lockOrd, pushed, log, before, retAt, retOps>>
\* value=theQueue.front();
popv_front(t) ==
    /\ pc[t] = "popv_front"
    /\ value' = [value EXCEPT ![t] = QFront(theQueue[self[t]])]
    /\ slotAt' = [slotAt EXCEPT ![t] = <<>>]
    /\ Goto(t, "popv_pop")
    /\ UNCHANGED <<queueVars, caller, self, new_value, res, ret, idx>>
    /\ UNCHANGED <<atLock, lockOrd, pushed, log, before, retAt, retOps>>

\* theQueue.pop();
popv_pop(t) ==
    /\ pc[t] = "popv_pop"
    /\ theQueue' = [theQueue EXCEPT ![self[t]] = QPop(@)]
    /\ Goto(t, "popv_unlock")
    /\ UNCHANGED <<m, built, caller, self, new_value, value, res, ret, idx, histVars>>

popv_unlock(t) ==
    /\ pc[t] = "popv_unlock"
    /\ unlock_guard(t, self[t])
    /\ log' = [log EXCEPT ![self[t]] = Logged(@, value[t])]
    /\ value' = [value EXCEPT ![t] = <<>>]
    /\ ClearRet(t)
    /\ Goto(t, AfterReturn(caller[t]))
    /\ UNCHANGED <<theQueue, built, caller, self, new_value, res, idx>>
    /\ UNCHANGED <<lockOrd, pushed, before, slotAt>>

\* Mutant: the mutex stays locked when the exception leaves.
popv_throw_nounlock(t) ==
    /\ pc[t] = "popv_throw"
    /\ log' = [log EXCEPT ![self[t]] = Logged(@, empty_queue)]
    /\ value' = [value EXCEPT ![t] = <<>>]
    /\ ClearRet(t)
    /\ slotAt' = [slotAt EXCEPT ![t] = <<>>]
    /\ Goto(t, AfterThrow(caller[t]))
    /\ UNCHANGED <<queueVars, caller, self, new_value, res, idx>>
    /\ UNCHANGED <<atLock, lockOrd, pushed, before>>

\* The exception leaves pop(T&): the guard is destroyed on the way out.
popv_throw(t) ==
    /\ pc[t] = "popv_throw"
    /\ unlock_guard(t, self[t])
    /\ log' = [log EXCEPT ![self[t]] = Logged(@, empty_queue)]
    /\ value' = [value EXCEPT ![t] = <<>>]
    /\ slotAt' = [slotAt EXCEPT ![t] = <<>>]
    /\ ClearRet(t)
    /\ Goto(t, AfterThrow(caller[t]))
    /\ UNCHANGED <<theQueue, built, caller, self, new_value, res, idx>>
    /\ UNCHANGED <<lockOrd, pushed, before>>

----------------------------------------------------------------------------
\* std::shared_ptr<T> pop()

pop_lock(t) ==
    /\ pc[t] = "pop_lock"
    /\ lock_guard(t, self[t])
    /\ Goto(t, "pop_check")
    /\ UNCHANGED <<theQueue, built, caller, self, new_value, value, res, ret, idx>>
    /\ UNCHANGED <<lockOrd, pushed, log, before, retAt, retOps, slotAt>>

\* Mutant: pop() waits under the lock until the queue holds an element.
pop_check_wait(t) ==
    /\ pc[t] = "pop_check"
    /\ ~QEmpty(theQueue[self[t]])
    /\ Goto(t, "pop_make")
    /\ UNCHANGED <<queueVars, caller, self, new_value, value, res, ret, idx, histVars>>
\* if(theQueue.empty()) throw empty_queue();
pop_check(t) ==
    /\ pc[t] = "pop_check"
    /\ Goto(t, IF QEmpty(theQueue[self[t]]) THEN "pop_throw" ELSE "pop_make")
    /\ UNCHANGED <<queueVars, caller, self, new_value, value, res, ret, idx, histVars>>

\* Mutant: pop() hands out a copy of back().
pop_make_back(t) ==
    /\ pc[t] = "pop_make"
    /\ res' = [res EXCEPT ![t] = QBack(theQueue[self[t]])]
    /\ Goto(t, "pop_pop")
    /\ UNCHANGED <<queueVars, caller, self, new_value, value, ret, idx, histVars>>
\* std::shared_ptr<T> const res(std::make_shared<T>(theQueue.front()));
pop_make(t) ==
    /\ pc[t] = "pop_make"
    /\ res' = [res EXCEPT ![t] = QFront(theQueue[self[t]])]
    /\ Goto(t, "pop_pop")
    /\ UNCHANGED <<queueVars, caller, self, new_value, value, ret, idx, histVars>>

\* theQueue.pop();
pop_pop(t) ==
    /\ pc[t] = "pop_pop"
    /\ theQueue' = [theQueue EXCEPT ![self[t]] = QPop(@)]
    /\ Goto(t, "pop_unlock")
    /\ UNCHANGED <<m, built, caller, self, new_value, value, res, ret, idx, histVars>>

\* return res; the caller's handle is dropped once its value is logged.
pop_unlock(t) ==
    /\ pc[t] = "pop_unlock"
    /\ unlock_guard(t, self[t])
    /\ log' = [log EXCEPT ![self[t]] = Logged(@, res[t])]
    /\ res' = [res EXCEPT ![t] = <<>>]
    /\ ClearRet(t)
    /\ Goto(t, AfterReturn(caller[t]))
    /\ UNCHANGED <<theQueue, built, caller, self, new_value, value, idx>>
    /\ UNCHANGED <<lockOrd, pushed, before, slotAt>>

pop_throw(t) ==
    /\ pc[t] = "pop_throw"
    /\ unlock_guard(t, self[t])
    /\ log' = [log EXCEPT ![self[t]] = Logged(@, empty_queue)]
    /\ ClearRet(t)
    /\ Goto(t, AfterThrow(caller[t]))
    /\ UNCHANGED <<theQueue, built, caller, self, new_value, value, res, idx>>
    /\ UNCHANGED <<lockOrd, pushed, before, slotAt>>

----------------------------------------------------------------------------
\* void push(T new_value)

push_lock(t) ==
    /\ pc[t] = "push_lock"
    /\ lock_guard(t, self[t])
    /\ lockOrd' = [lockOrd EXCEPT ![self[t]] = Append(@, new_value[t][1])]
    /\ Goto(t, "push_body")
    /\ UNCHANGED <<theQueue, built, caller, self, new_value, value, res, ret, idx>>
    /\ UNCHANGED <<pushed, log, before, retAt, retOps, slotAt>>

\* theQueue.push(new_value);
push_body(t) ==
    /\ pc[t] = "push_body"
    /\ theQueue' = [theQueue EXCEPT ![self[t]] = QPush(@, new_value[t][1])]
    /\ Goto(t, "push_unlock")
    /\ UNCHANGED <<m, built, caller, self, new_value, value, res, ret, idx, histVars>>

\* Mutant: push returns with the mutex still locked.
push_unlock_keep(t) ==
    /\ pc[t] = "push_unlock"
    /\ pushed' = [pushed EXCEPT ![self[t]] = Append(@, new_value[t][1])]
    /\ new_value' = [new_value EXCEPT ![t] = <<>>]
    /\ Goto(t, AfterReturn(caller[t]))
    /\ UNCHANGED <<queueVars, caller, self, value, res, ret, idx>>
    /\ UNCHANGED <<atLock, lockOrd, log, before, retAt, retOps, slotAt>>
push_unlock(t) ==
    /\ pc[t] = "push_unlock"
    /\ unlock_guard(t, self[t])
    /\ pushed' = [pushed EXCEPT ![self[t]] = Append(@, new_value[t][1])]
    /\ new_value' = [new_value EXCEPT ![t] = <<>>]
    /\ Goto(t, AfterReturn(caller[t]))
    /\ UNCHANGED <<theQueue, built, caller, self, value, res, ret, idx>>
    /\ UNCHANGED <<lockOrd, log, before, retAt, retOps, slotAt>>

----------------------------------------------------------------------------
\* The calls.  A payload is pushed once, so that it names its element.

Used == UNION {Range(lockOrd[q]) : q \in Queues} \cup UNION {Range(new_value[t]) : t \in DOMAIN pc}

call_push(t, q, v, site) ==
    /\ q \in built
    /\ Goto(t, "push_lock")
    /\ self' = [self EXCEPT ![t] = q]
    /\ caller' = [caller EXCEPT ![t] = site]
    /\ new_value' = [new_value EXCEPT ![t] = <<v>>]
    /\ UNCHANGED <<queueVars, value, res, ret, idx, atLock, lockOrd, pushed, log, retAt, retOps, slotAt>>

call_pop(t, q, site) ==
    /\ q \in built
    /\ Goto(t, "pop_lock")
    /\ self' = [self EXCEPT ![t] = q]
    /\ caller' = [caller EXCEPT ![t] = site]
    /\ UNCHANGED <<queueVars, new_value, value, res, ret, idx, histVars>>

\* s is what the caller's slot holds when it is passed.
call_pop_value(t, q, s, site) ==
    /\ q \in built
    /\ Goto(t, "popv_lock")
    /\ self' = [self EXCEPT ![t] = q]
    /\ caller' = [caller EXCEPT ![t] = site]
    /\ value' = [value EXCEPT ![t] = s]
    /\ slotAt' = [slotAt EXCEPT ![t] = s]
    /\ UNCHANGED <<queueVars, new_value, res, ret, idx>>
    /\ UNCHANGED <<atLock, lockOrd, pushed, log, before, retAt, retOps>>

call_empty(t, q, site) ==
    /\ q \in built
    /\ Goto(t, "empty_lock")
    /\ self' = [self EXCEPT ![t] = q]
    /\ caller' = [caller EXCEPT ![t] = site]
    /\ UNCHANGED <<queueVars, new_value, value, res, ret, idx, histVars>>

\* A client thread: any member function, on a constructed instance, at any time.
Client_push(t, q) ==
    /\ pc[t] = "idle"
    /\ \E v \in Values \ Used :
         /\ call_push(t, q, v, "client")
         /\ before' = [before EXCEPT ![v] = Range(pushed[q])]
Client_pop(t, q) == pc[t] = "idle" /\ call_pop(t, q, "client")
Client_pop_value(t, q) ==
    pc[t] = "idle" /\ \E s \in Slots : call_pop_value(t, q, s, "client")

\* The polling client: T value; if (!q.empty()) q.pop(value);
Client_check(t, q) == pc[t] = "idle" /\ call_empty(t, q, "c_check")

Client_test(t) ==
    /\ pc[t] = "c_test"
    /\ IF ret[t][2]
          THEN /\ Goto(t, "idle")
               /\ ClearRet(t)
               /\ UNCHANGED <<queueVars, caller, self, new_value, value, res, idx>>
               /\ UNCHANGED <<atLock, lockOrd, pushed, log, before, slotAt>>
          ELSE call_pop_value(t, ret[t][1], <<>>, "client")

----------------------------------------------------------------------------
\* ThreadsafeQueue(const ThreadsafeQueue& other), with other the shared instance.

\* The new instance's theQueue member is default-constructed, then the body runs.
Client_copy(t) ==
    /\ pc[t] = "idle"
    /\ "copy" \notin built
    /\ \A u \in DOMAIN pc : pc[u] \notin CopyPcs
    /\ Goto(t, "copy_lock")
    /\ self' = [self EXCEPT ![t] = "copy"]
    /\ caller' = [caller EXCEPT ![t] = "client"]
    /\ theQueue' = [theQueue EXCEPT !["copy"] = <<>>]
    /\ UNCHANGED <<m, built, new_value, value, res, ret, idx, histVars>>

\* Mutant: the new instance's own mutex is locked, not the source's.
copy_lock_own(t) ==
    /\ pc[t] = "copy_lock"
    /\ lock_guard(t, self[t])
    /\ Goto(t, "copy_body")
    /\ UNCHANGED <<theQueue, built, caller, self, new_value, value, res, ret, idx>>
    /\ UNCHANGED <<lockOrd, pushed, log, before, retAt, retOps, slotAt>>

\* std::lock_guard<std::mutex> lock(other.m);
copy_lock(t) ==
    /\ pc[t] = "copy_lock"
    /\ lock_guard(t, "orig")
    /\ Goto(t, "copy_body")
    /\ UNCHANGED <<theQueue, built, caller, self, new_value, value, res, ret, idx>>
    /\ UNCHANGED <<lockOrd, pushed, log, before, retAt, retOps, slotAt>>

\* theQueue=other.theQueue; the container is assigned one element after another.
copy_body(t) ==
    /\ pc[t] = "copy_body"
    /\ LET k == Len(theQueue[self[t]]) + 1 IN
       IF k <= Len(theQueue["orig"])
         THEN /\ theQueue' = [theQueue EXCEPT ![self[t]] = Append(@, theQueue["orig"][k])]
              /\ UNCHANGED pc
         ELSE /\ Goto(t, "copy_unlock")
              /\ UNCHANGED theQueue
    /\ UNCHANGED <<m, built, caller, self, new_value, value, res, ret, idx, histVars>>

\* The constructor returns: the new instance exists.
copy_unlock(t) ==
    /\ pc[t] = "copy_unlock"
    /\ unlock_guard(t, "orig")
    /\ built' = built \cup {self[t]}
    /\ Goto(t, AfterReturn(caller[t]))
    /\ UNCHANGED <<theQueue, caller, self, new_value, value, res, ret, idx>>
    /\ UNCHANGED <<lockOrd, pushed, log, before, retAt, retOps, slotAt>>

----------------------------------------------------------------------------
Init ==
    /\ theQueue = [q \in Queues |-> <<>>]
    /\ m = [q \in Queues |-> {}]
    /\ built = {"orig"}
    /\ pc = [t \in Threads |-> "idle"]
    /\ caller = [t \in Threads |-> "client"]
    /\ self = [t \in Threads |-> "orig"]
    /\ new_value = [t \in Threads |-> <<>>]
    /\ value = [t \in Threads |-> <<>>]
    /\ res = [t \in Threads |-> <<>>]
    /\ ret = [t \in Threads |-> <<>>]
    /\ idx = 0
    /\ atLock = [t \in Threads |-> <<>>]
    /\ lockOrd = [q \in Queues |-> <<>>]
    /\ pushed = [q \in Queues |-> <<>>]
    /\ log = [q \in Queues |-> <<>>]
    /\ before = [v \in Values |-> {}]
    /\ retAt = [t \in Threads |-> 0]
    /\ retOps = [t \in Threads |-> 0]
    /\ slotAt = [t \in Threads |-> <<>>]

Emptying(t) == empty_lock(t) \/ empty_body(t) \/ empty_unlock(t)

PoppingValue(t) ==
    \/ popv_lock(t) \/ popv_check(t) \/ popv_front(t) \/ popv_pop(t)
    \/ popv_unlock(t) \/ popv_throw(t)

Popping(t) ==
    \/ pop_lock(t) \/ pop_check(t) \/ pop_make(t) \/ pop_pop(t)
    \/ pop_unlock(t) \/ pop_throw(t)

Pushing(t) == push_lock(t) \/ push_body(t) \/ push_unlock(t)

Member(t) == Emptying(t) \/ PoppingValue(t) \/ Popping(t) \/ Pushing(t)

\* Clients that push to and remove from the shared instance.
Next ==
    \E t \in Threads :
        \/ Client_push(t, "orig") \/ Client_pop(t, "orig") \/ Client_pop_value(t, "orig")
        \/ Pushing(t) \/ Popping(t) \/ PoppingValue(t)

Spec == Init /\ [][Next]_vars

\* Clients that push, and clients that poll empty() before they remove.
NextPoll ==
    \E t \in Threads :
        \/ Client_push(t, "orig") \/ Client_check(t, "orig") \/ Client_test(t)
        \/ Pushing(t) \/ Emptying(t) \/ PoppingValue(t)

SpecPoll == Init /\ [][NextPoll]_vars

\* The clients of an instance and of its copy.
Copying(t) == copy_lock(t) \/ copy_body(t) \/ copy_unlock(t)

NextCopy ==
    \E t \in Threads :
        \/ \E q \in Queues : Client_push(t, q) \/ Client_pop(t, q)
        \/ Client_copy(t)
        \/ Copying(t) \/ Pushing(t) \/ Popping(t)

SpecCopy == Init /\ [][NextCopy]_vars

\* Every member function, by every thread.
NextAll ==
    \E t \in Threads :
        \/ Client_push(t, "orig") \/ Client_pop(t, "orig")
        \/ Client_check(t, "orig") \/ Client_test(t)
        \/ Client_copy(t)
        \/ Copying(t) \/ Member(t)

SpecAll == Init /\ [][NextAll]_vars

\* The four member functions under a fair scheduler: a thread inside a member
\* function goes on running, and a thread that waits for a mutex that is
\* free again and again gets it.
Locking(t) == empty_lock(t) \/ popv_lock(t) \/ pop_lock(t) \/ push_lock(t)

Running(t) ==
    \/ empty_body(t) \/ empty_unlock(t)
    \/ popv_check(t) \/ popv_front(t) \/ popv_pop(t) \/ popv_unlock(t) \/ popv_throw(t)
    \/ pop_check(t) \/ pop_make(t) \/ pop_pop(t) \/ pop_unlock(t) \/ pop_throw(t)
    \/ push_body(t) \/ push_unlock(t)

NextFair ==
    \E t \in Threads :
        \/ Client_push(t, "orig") \/ Client_pop(t, "orig")
        \/ Client_check(t, "orig") \/ Client_test(t)
        \/ Locking(t) \/ Running(t)

Fairness == \A t \in Threads : WF_vars(Running(t)) /\ SF_vars(Locking(t))

SpecFair == Init /\ [][NextFair]_vars /\ Fairness
\* One thread alone: it pushes, and once it has begun to remove it only removes.
NextSeq ==
    \E t \in {1} :
        \/ log["orig"] = <<>> /\ Client_push(t, "orig")
        \/ Client_pop(t, "orig") \/ Client_pop_value(t, "orig")
        \/ Pushing(t) \/ Popping(t) \/ PoppingValue(t)

SpecSeq == Init /\ [][NextSeq]_vars

----------------------------------------------------------------------------
\* main of driver.cpp.  Writing to std::cout changes nothing modelled here and
\* is part of the step it follows.

\* Two instances, both default-constructed, and one thread that does to the
\* second what it has just done to the first: it pushes the same value to
\* both, and removes with pop() from the first and with pop(T&) from the second.
InitTwin ==
    /\ theQueue = [q \in Queues |-> <<>>]
    /\ m = [q \in Queues |-> {}]
    /\ built = Queues
    /\ pc = [t \in Threads |-> "idle"]
    /\ caller = [t \in Threads |-> "client"]
    /\ self = [t \in Threads |-> "orig"]
    /\ new_value = [t \in Threads |-> <<>>]
    /\ value = [t \in Threads |-> <<>>]
    /\ res = [t \in Threads |-> <<>>]
    /\ ret = [t \in Threads |-> <<>>]
    /\ idx = 0
    /\ atLock = [t \in Threads |-> <<>>]
    /\ lockOrd = [q \in Queues |-> <<>>]
    /\ pushed = [q \in Queues |-> <<>>]
    /\ log = [q \in Queues |-> <<>>]
    /\ before = [v \in Values |-> {}]
    /\ retAt = [t \in Threads |-> 0]
    /\ retOps = [t \in Threads |-> 0]
    /\ slotAt = [t \in Threads |-> <<>>]

Twin_push(t) ==
    /\ pc[t] = "idle"
    /\ \E v \in Values \ Used : call_push(t, "orig", v, "tw_push")
    /\ UNCHANGED before

Twin_push2(t) ==
    /\ pc[t] = "tw_push2"
    /\ call_push(t, "copy", pushed["orig"][Len(pushed["orig"])], "client")
    /\ UNCHANGED before

Twin_pop(t) == pc[t] = "idle" /\ call_pop(t, "orig", "tw_pop")

Twin_pop2(t) ==
    /\ pc[t] = "tw_pop2"
    /\ \E s \in Slots : call_pop_value(t, "copy", s, "client")

NextTwin ==
    \E t \in {1} :
        \/ Twin_push(t) \/ Twin_push2(t) \/ Twin_pop(t) \/ Twin_pop2(t)
        \/ Pushing(t) \/ Popping(t) \/ PoppingValue(t)

SpecTwin == InitTwin /\ [][NextTwin]_vars
Main == 0
Workers == 1 .. NWorkers
DriverSlots == {<<>>} \cup {<<v>> : v \in Workers}

\* for (int i=1; i<=10; i++) vecOfThreads.push_back(std::thread(func, i));
m_spawn ==
    /\ pc[Main] = "m_spawn"
    /\ IF idx <= NWorkers
         THEN /\ pc' = [pc EXCEPT ![idx] = "w_start"]
              /\ idx' = idx + 1
         ELSE /\ Goto(Main, "m_join")
              /\ idx' = 1
    /\ UNCHANGED <<queueVars, caller, self, new_value, value, res, ret, histVars>>

\* Mutant: main does not wait for the workers.
m_join_nowait ==
    /\ pc[Main] = "m_join"
    /\ Goto(Main, "m_drain")
    /\ idx' = 0
    /\ UNCHANGED <<queueVars, caller, self, new_value, value, res, ret, histVars>>

\* for (std::thread & th : vecOfThreads) if (th.joinable()) th.join();
m_join ==
    /\ pc[Main] = "m_join"
    /\ IF idx <= NWorkers
         THEN /\ pc[idx] = "w_done"
              /\ idx' = idx + 1
              /\ UNCHANGED pc
         ELSE /\ Goto(Main, "m_drain")
              /\ idx' = 0
    /\ UNCHANGED <<queueVars, caller, self, new_value, value, res, ret, histVars>>

\* while (true) { int readValue; myStack.pop(readValue); ... }
\* readValue is not initialised: it holds any value when it is passed.
m_drain ==
    /\ pc[Main] = "m_drain"
    /\ \E s \in DriverSlots : call_pop_value(Main, "orig", s, "m_drain")

\* catch (empty_queue& e) { ... } return 0;
m_catch ==
    /\ pc[Main] = "m_catch"
    /\ Goto(Main, "m_done")
    /\ UNCHANGED <<queueVars, caller, self, new_value, value, res, ret, idx, histVars>>

\* func(i): myStack.push(i);
w_start(t) ==
    /\ pc[t] = "w_start"
    /\ call_push(t, "orig", t, "w_push")
    /\ UNCHANGED before

\* float f; for (int j=1; j < 200; j++ ) f += j * 3.1453;
\* f is never read again: whatever it holds, the queue is not touched.
w_busy(t) ==
    /\ pc[t] = "w_busy"
    /\ Goto(t, "w_test")
    /\ UNCHANGED <<queueVars, caller, self, new_value, value, res, ret, idx, histVars>>

\* if (i%3 != 0) { std::shared_ptr<int> ptr = myStack.pop(); ... }
w_test(t) ==
    /\ pc[t] = "w_test"
    /\ IF t % 3 # 0
         THEN call_pop(t, "orig", "w_pop")
         ELSE /\ Goto(t, "w_done")
              /\ UNCHANGED <<queueVars, caller, self, new_value, value, res, ret, idx>>
              /\ UNCHANGED histVars

\* No worker catches empty_queue: thrown by its pop(), it ends the program
\* (std::terminate) with the thread still inside pop().
Terminated == \E t \in Workers : pc[t] = "pop_throw"

WorkerPopping(t) ==
    \/ pop_lock(t) \/ pop_check(t) \/ pop_make(t) \/ pop_pop(t) \/ pop_unlock(t)

InitDriver ==
    /\ theQueue = [q \in Queues |-> <<>>]
    /\ m = [q \in Queues |-> {}]
    /\ built = {"orig"}
    /\ pc = [t \in {Main} \cup Workers |-> IF t = Main THEN "m_spawn" ELSE "unborn"]
    /\ caller = [t \in {Main} \cup Workers |-> "main"]
    /\ self = [t \in {Main} \cup Workers |-> "orig"]
    /\ new_value = [t \in {Main} \cup Workers |-> <<>>]
    /\ value = [t \in {Main} \cup Workers |-> <<>>]
    /\ res = [t \in {Main} \cup Workers |-> <<>>]
    /\ ret = [t \in {Main} \cup Workers |-> <<>>]
    /\ idx = 1
    /\ atLock = [t \in {Main} \cup Workers |-> <<>>]
    /\ lockOrd = [q \in Queues |-> <<>>]
    /\ pushed = [q \in Queues |-> <<>>]
    /\ log = [q \in Queues |-> <<>>]
    /\ before = [v \in Workers |-> {}]
    /\ retAt = [t \in {Main} \cup Workers |-> 0]
    /\ retOps = [t \in {Main} \cup Workers |-> 0]
    /\ slotAt = [t \in {Main} \cup Workers |-> <<>>]

NextDriver ==
    /\ ~Terminated
    /\ \/ m_spawn \/ m_join \/ m_drain \/ m_catch
       \/ PoppingValue(Main)
       \/ \E t \in Workers :
            \/ w_start(t) \/ w_busy(t) \/ w_test(t)
            \/ Pushing(t)
            \/ WorkerPopping(t)

SpecDriver == InitDriver /\ [][NextDriver]_vars

\* The driver under a fair scheduler: while some thread can take a step, a
\* step is taken.
SpecDriverFair == InitDriver /\ [][NextDriver]_vars /\ WF_vars(NextDriver)

----------------------------------------------------------------------------
\* The properties.

ThreadIds == DOMAIN pc

\* The statements a thread executes between the construction and the
\* destruction of its lock_guard.
LockedPcs ==
    {"empty_body", "empty_unlock",
     "popv_check", "popv_front", "popv_pop", "popv_unlock", "popv_throw",
     "pop_check", "pop_make", "pop_pop", "pop_unlock", "pop_throw",
     "push_body", "push_unlock",
     "copy_body", "copy_unlock"}
ThrowPcs == {"pop_throw", "popv_throw"}
TakenPcs == {"pop_make", "pop_pop", "pop_unlock", "popv_front", "popv_pop", "popv_unlock"}

Inside(q) == {t \in ThreadIds : pc[t] \in LockedPcs /\ Src(t) = q}
Boxed(p) == [i \in 1 .. Len(p) |-> <<p[i]>>]
Got(q) == Unbox(Delivered(log[q]))
NoRepeats(d) == \A i, j \in 1 .. Len(d) : d[i] = d[j] => i = j
Pos(d, v) == CHOOSE i \in 1 .. Len(d) : d[i] = v

\* C1: every value a remove delivers was passed to a push of that instance,
\* and no value is delivered by two removes.
C1_NoDoubleDelivery ==
    /\ Range(Got("orig")) \subseteq Range(lockOrd["orig"])
    /\ NoRepeats(Got("orig"))

\* Two removes by two threads overlap: one has delivered, the other holds the
\* next element and is about to return it.
C1_Witness ==
    \E t, u \in ThreadIds :
        /\ t # u
        /\ Len(Got("orig")) = 1
        /\ pc[t] = "popv_unlock"
        /\ pc[u] = "pop_lock"
        /\ value[t] # <<>>

\* C2: at most one thread is between the construction and the destruction of a
\* lock_guard on the mutex of an instance, and a thread that is there owns it.
C2_MutualExclusion ==
    \A q \in Queues :
        /\ Cardinality(Inside(q)) <= 1
        /\ \A t \in Inside(q) : m[q] = {t}

\* A push is inside while the copy constructor waits for the same mutex.
C2_Witness ==
    \E t, u \in ThreadIds :
        /\ pc[t] = "push_body"
        /\ pc[u] = "copy_lock"
        /\ self[t] = "orig"

\* C3: one thread pushes p1..pn to a new queue and then removes: the removes
\* deliver p1, p2, ..., pn in this order, and the remove after the n-th fails.
C3_Fifo ==
    LET p == pushed["orig"]
        l == log["orig"]
    IN  \/ \E k \in 0 .. Len(p) : l = Boxed(SubSeq(p, 1, k))
        \/ l = Boxed(p) \o <<empty_queue>>

\* All the payloads were pushed and removed, and one more remove has failed.
C3_Witness ==
    /\ Len(pushed["orig"]) = MaxVal
    /\ log["orig"] = Boxed(pushed["orig"]) \o <<empty_queue>>

\* C4: a remove throws empty_queue exactly if the sequence was empty when the
\* remove locked the mutex.
C4_EmptyIff ==
    \A t \in ThreadIds :
        /\ pc[t] \in ThrowPcs => atLock[t] = <<>>
        /\ pc[t] \in TakenPcs => atLock[t] # <<>>

\* A remove fails on a queue that was drained, while a push waits.
C4_Witness ==
    \E t, u \in ThreadIds :
        /\ pc[t] = "pop_throw"
        /\ pc[u] = "push_lock"
        /\ Len(Got("orig")) >= 1

\* C5: a remove that throws leaves the sequence as it was, empty; and the value
\* a remove delivers next after a failure is the next one pushed.
C5_FailedRemoveFrame ==
    [][\A t \in ThreadIds :
          /\ (pc[t] \in ThrowPcs /\ pc'[t] # pc[t]) =>
                /\ theQueue'[self[t]] = atLock[t]
                /\ theQueue'[self[t]] = <<>>
          /\ (pc[t] \in {"pop_unlock", "popv_unlock"} /\ pc'[t] # pc[t]
              /\ log[self[t]] # <<>> /\ log[self[t]][Len(log[self[t]])] = empty_queue) =>
                /\ Len(Got(self[t])') = Len(Got(self[t])) + 1
                /\ Got(self[t])'[Len(Got(self[t])')] = lockOrd[self[t]][Len(Got(self[t])')]
      ]_vars

\* After a failed remove on a new queue, a push and a remove: the pushed value
\* is delivered.
C5_Witness ==
    /\ Len(log["orig"]) = 2
    /\ log["orig"][1] = empty_queue
    /\ log["orig"][2] # empty_queue

\* C6: if push(a) returned before push(b) was called, b is delivered only after
\* a; and the sequence holds the values in the order their pushes locked.
C6_FifoAcrossThreads ==
    /\ \A b \in Range(Got("orig")) : \A a \in before[b] :
          /\ a \in Range(Got("orig"))
          /\ Pos(Got("orig"), a) < Pos(Got("orig"), b)
    /\ m["orig"] = {} => Got("orig") \o theQueue["orig"] = lockOrd["orig"]

\* Two values are delivered whose pushes did not overlap.
C6_Witness ==
    /\ Len(Got("orig")) = 2
    /\ before[Got("orig")[2]] = {Got("orig")[1]}

\* C7: when main has drained the queue, the values the workers and main removed
\* are the values 1..NWorkers, each once, and the queue is empty.
C7_DriverMultiset ==
    pc[Main] = "m_done" =>
        /\ Len(Got("orig")) = NWorkers
        /\ Range(Got("orig")) = Workers
        /\ theQueue["orig"] = <<>>

\* main is done, and the values did not leave in the order 1, 2, ...
C7_Witness ==
    /\ pc[Main] = "m_done"
    /\ Got("orig")[1] = NWorkers

\* C8: the mutex of an instance is owned only by a thread that is inside a
\* member function on it, so it is free whenever no thread is; and a thread
\* that waits for it waits for a thread that can go on.
C8_LockReleased ==
    \A q \in Queues :
        /\ m[q] \subseteq Inside(q)
        /\ Inside(q) = {} => m[q] = {}

\* A remove has thrown, and a push has locked the mutex since.
C8_Witness ==
    \E t \in ThreadIds :
        /\ pc[t] = "push_body"
        /\ log["orig"] # <<>>
        /\ log["orig"][Len(log["orig"])] = empty_queue

\* C9: a remove that fails right after the same thread's empty() returned false
\* fails because another thread removed an element in between.
C9_SnapshotOnly ==
    \A t \in ThreadIds :
        (pc[t] = "popv_throw" /\ ret[t] # <<>> /\ ~ret[t][2]) =>
            Len(Got(self[t])) > retAt[t]

\* empty() returned false to a thread whose remove then fails.
C9_Witness ==
    \E t \in ThreadIds : pc[t] = "popv_throw" /\ ret[t] # <<>> /\ ~ret[t][2]

\* C10: the copy holds what the source held when the copy constructor locked the
\* source's mutex: while it copies a prefix of it, and all of it at the end.
C10_CopySnapshot ==
    \A t \in ThreadIds :
        /\ pc[t] = "copy_body" =>
              /\ Len(theQueue[self[t]]) <= Len(atLock[t])
              /\ theQueue[self[t]] = SubSeq(atLock[t], 1, Len(theQueue[self[t]]))
        /\ pc[t] = "copy_unlock" => theQueue[self[t]] = atLock[t]

\* The copy of two elements is complete while another thread waits to push or
\* to remove.
C10_Witness ==
    \E t, u \in ThreadIds :
        /\ pc[t] = "copy_unlock"
        /\ Len(theQueue["copy"]) = 2
        /\ pc[u] \in {"push_lock", "pop_lock"}
        /\ self[u] = "orig"

\* The statements of push and of pop(), from the call to the return.
PushPopPcs ==
    {"push_lock", "push_body", "push_unlock",
     "pop_lock", "pop_check", "pop_make", "pop_pop", "pop_unlock", "pop_throw"}
Other(q) == IF q = "orig" THEN "copy" ELSE "orig"

\* C11: once the copy exists, a step of a push or of a remove on one instance
\* leaves the sequence and the mutex of the other instance as they were, and
\* a thread that waits for a free mutex can lock it whoever is inside the
\* other instance.
C11_Independent ==
    [][ "copy" \in built =>
          \A t \in Threads :
              /\ (pc[t] \in PushPopPcs /\ pc'[t] # pc[t]) =>
                    /\ theQueue'[Other(self[t])] = theQueue[Other(self[t])]
                    /\ m'[Other(self[t])] = m[Other(self[t])]
              /\ (pc[t] = "push_lock" /\ m[self[t]] = {}) => ENABLED push_lock(t)
              /\ (pc[t] = "pop_lock" /\ m[self[t]] = {}) => ENABLED pop_lock(t) ]_vars

\* One thread has pushed to the original and another removes from the copy,
\* both inside their critical sections, and the two sequences differ.
C11_Witness ==
    \E t, u \in ThreadIds :
        /\ "copy" \in built
        /\ pc[t] = "push_unlock" /\ self[t] = "orig"
        /\ pc[u] = "pop_pop" /\ self[u] = "copy"
        /\ theQueue["orig"] # theQueue["copy"]

\* The statements of empty, pop(T&), pop() and push, from the call to the
\* return or the throw.
MemberPcs ==
    {"empty_lock", "empty_body", "empty_unlock",
     "popv_lock", "popv_check", "popv_front", "popv_pop", "popv_unlock", "popv_throw",
     "pop_lock", "pop_check", "pop_make", "pop_pop", "pop_unlock", "pop_throw",
     "push_lock", "push_body", "push_unlock"}
FailedLast(q) == log[q] # <<>> /\ log[q][Len(log[q])] = empty_queue

\* C12: under a fair scheduler every call of empty, push, pop() and pop(T&)
\* returns or throws; and a remove that finds the queue empty has left with
\* empty_queue before any further push has locked the mutex.
C12_NoWaiting ==
    /\ \A t \in Threads : (pc[t] \in MemberPcs) ~> (pc[t] \notin MemberPcs)
    /\ \A t \in Threads : \A n \in 0 .. MaxVal :
          (/\ pc[t] \in {"pop_check", "popv_check"}
           /\ theQueue["orig"] = <<>>
           /\ Len(lockOrd["orig"]) = n)
          ~> (/\ pc[t] \notin MemberPcs
              /\ FailedLast("orig")
              /\ Len(lockOrd["orig"]) = n)

\* A remove throws on the empty queue while another thread waits to push.
C12_Witness ==
    \E t, u \in ThreadIds :
        /\ pc[t] \in ThrowPcs
        /\ pc[u] = "push_lock"
        /\ theQueue["orig"] = <<>>

\* C13: empty() returns true exactly when the sequence it locked has no
\* element, the sequence is the same when it returns, and two results read
\* with no push and no remove between them are equal.
C13_EmptyPure ==
    /\ \A t \in ThreadIds :
          /\ pc[t] = "empty_body" => theQueue[self[t]] = atLock[t]
          /\ pc[t] = "empty_unlock" =>
                /\ ret[t][2] = (Len(atLock[t]) = 0)
                /\ theQueue[self[t]] = atLock[t]
    /\ \A t, u \in ThreadIds :
          (/\ ret[t] # <<>> /\ ret[u] # <<>>
           /\ ret[t][1] = ret[u][1]
           /\ retOps[t] = retOps[u]) => ret[t][2] = ret[u][2]

\* Two calls of empty(), after a push and with nothing between them, have
\* both returned false; the second still holds the lock.
C13_Witness ==
    \E t, u \in ThreadIds :
        /\ t # u
        /\ pc[t] = "c_test" /\ pc[u] = "empty_unlock"
        /\ retOps[t] = retOps[u] /\ retOps[t] > 0
        /\ ~ret[t][2] /\ ~ret[u][2]

\* C14: push has no failing exit and is refused in no state: once it holds
\* the lock its body can run, and the body appends new_value at the back, so
\* that the sequence is one longer and begins with what it held before.
C14_PushAppends ==
    [][ \A t \in Threads :
          /\ pc[t] = "push_body" => ENABLED push_body(t)
          /\ (pc[t] \in {"push_lock", "push_body", "push_unlock"} /\ pc'[t] # pc[t]) =>
                pc'[t] \in {"push_body", "push_unlock", AfterReturn(caller[t])}
          /\ (pc[t] = "push_body" /\ pc'[t] # pc[t]) =>
                /\ Len(theQueue'[self[t]]) = Len(theQueue[self[t]]) + 1
                /\ theQueue'[self[t]][Len(theQueue'[self[t]])] = new_value[t][1]
                /\ SubSeq(theQueue'[self[t]], 1, Len(theQueue[self[t]])) = theQueue[self[t]]
                /\ theQueue[self[t]] = atLock[t] ]_vars

\* A push onto a queue that already holds every other value has appended.
C14_Witness ==
    \E t \in ThreadIds :
        /\ pc[t] = "push_unlock"
        /\ Len(theQueue["orig"]) = MaxVal
        /\ theQueue["orig"][MaxVal] = new_value[t][1]

\* C15: a remove that succeeds delivers the element that was at the front when
\* it locked the mutex and leaves the rest of that sequence in order; between
\* its read of the front and its removal no other operation has changed the
\* sequence.
C15_FrontRemoved ==
    \A t \in ThreadIds :
        /\ pc[t] \in {"popv_front", "pop_make"} =>
              theQueue[self[t]] = atLock[t] /\ atLock[t] # <<>>
        /\ pc[t] = "popv_pop" =>
              theQueue[self[t]] = atLock[t] /\ value[t] = <<Head(atLock[t])>>
        /\ pc[t] = "pop_pop" =>
              theQueue[self[t]] = atLock[t] /\ res[t] = <<Head(atLock[t])>>
        /\ pc[t] = "popv_unlock" =>
              /\ value[t] = <<Head(atLock[t])>>
              /\ theQueue[self[t]] = Tail(atLock[t])
              /\ Len(theQueue[self[t]]) = Len(atLock[t]) - 1
        /\ pc[t] = "pop_unlock" =>
              /\ res[t] = <<Head(atLock[t])>>
              /\ theQueue[self[t]] = Tail(atLock[t])
              /\ Len(theQueue[self[t]]) = Len(atLock[t]) - 1

\* A remove has taken the front of two elements while another thread waits
\* to remove.
C15_Witness ==
    \E t, u \in ThreadIds :
        /\ pc[t] \in {"popv_unlock", "pop_unlock"}
        /\ Len(atLock[t]) = 2 /\ Len(theQueue["orig"]) = 1
        /\ pc[u] \in {"popv_lock", "pop_lock"}

\* C16: under a fair scheduler the driver ends: every worker has finished, main
\* has joined them and drained the queue, its last pop(T&) threw empty_queue,
\* and the queue is empty from then on.
C16_DriverTerminates ==
    <>[](/\ pc[Main] = "m_done"
         /\ \A t \in Workers : pc[t] = "w_done"
         /\ idx = 0
         /\ FailedLast("orig")
         /\ theQueue["orig"] = <<>>
         /\ m["orig"] = {})

\* main has caught empty_queue after every worker's value has been removed.
C16_Witness ==
    /\ pc[Main] = "m_catch"
    /\ \A t \in Workers : pc[t] = "w_done"
    /\ Len(Got("orig")) = NWorkers
    /\ FailedLast("orig")

\* C17: in the driver a worker's pop() never throws empty_queue: whenever a
\* worker holds the lock for its pop() the sequence has an element, and the
\* program is never ended by an exception no one catches.
C17_WorkerPopSucceeds ==
    /\ ~Terminated
    /\ \A t \in Workers :
          /\ pc[t] # "pop_throw"
          /\ pc[t] = "pop_check" => Len(theQueue["orig"]) >= 1 /\ atLock[t] # <<>>

\* A worker holds the lock for its pop() when the queue holds one element,
\* which is not its own: its own has been removed by another worker.
C17_Witness ==
    \E t \in Workers :
        /\ pc[t] = "pop_check"
        /\ Len(theQueue["orig"]) = 1
        /\ t \in Range(Got("orig"))

\* How often v occurs in the sequence s.
Count(s, v) == Cardinality({i \in 1 .. Len(s) : s[i] = v})

\* C18: whenever no thread is inside a critical section of the instance, each
\* value occurs among the pushes that have returned as often as in the
\* sequence and among the values delivered together, and the length of the
\* sequence is the number of those pushes less the number of removes that
\* succeeded.
C18_Conservation ==
    m["orig"] = {} =>
        /\ \A v \in Values :
              Count(pushed["orig"], v) = Count(theQueue["orig"], v) + Count(Got("orig"), v)
        /\ Len(theQueue["orig"]) = Len(pushed["orig"]) - Len(Got("orig"))
        /\ Len(pushed["orig"]) >= Len(Got("orig"))

\* No thread holds the lock; one value has been delivered, one is in the
\* queue, and a remove has also failed.
C18_Witness ==
    /\ m["orig"] = {}
    /\ Len(Got("orig")) = 1
    /\ Len(theQueue["orig"]) = 1
    /\ Len(log["orig"]) > 1

\* C19: pop() and pop(T&) applied to two queues in the same state both succeed
\* or both throw, deliver the same value, and leave the two queues in the same
\* state: after each pair of calls the sequences are equal and so are the
\* outcomes so far.
C19_Interchangeable ==
    /\ (\A t \in ThreadIds : pc[t] = "idle") =>
          /\ theQueue["orig"] = theQueue["copy"]
          /\ log["orig"] = log["copy"]
    /\ \A t \in ThreadIds :
        /\ pc[t] = "tw_pop2" => theQueue["orig"] = QPop(theQueue["copy"])
        /\ (pc[t] = "popv_throw" /\ self[t] = "copy") => FailedLast("orig")
        /\ (pc[t] = "popv_unlock" /\ self[t] = "copy") =>
              /\ ~FailedLast("orig")
              /\ value[t] = log["orig"][Len(log["orig"])]
              /\ theQueue["orig"] = theQueue["copy"]

\* pop(T&) has removed from the second queue, which held two elements, what
\* pop() removed from the first.
C19_Witness ==
    \E t \in ThreadIds :
        /\ pc[t] = "popv_unlock" /\ self[t] = "copy"
        /\ Len(atLock[t]) = 2
        /\ Len(Got("orig")) = 1

\* C20: while pop(T&) is on its way to throwing empty_queue, and when it
\* throws, the caller's slot holds what it held when it was passed.
C20_SlotUntouched ==
    \A t \in ThreadIds :
        pc[t] \in {"popv_lock", "popv_check", "popv_throw"} => value[t] = slotAt[t]

\* pop(T&) throws with a slot that was passed holding a value.
C20_Witness ==
    \E t \in ThreadIds : pc[t] = "popv_throw" /\ slotAt[t] # <<>> /\ value[t] # <<>>

====
